---- MODULE Spec2Model ----
(***************************************************************************)
(* Model of the asynchronous job engine of Auto_ML:                        *)
(*   backend/tasks.py            the Celery application, the two tasks,    *)
(*                               get_task_status and cancel_task           *)
(*   backend/celery_start.py     the worker command line                   *)
(*   backend/services/ml_service.py   the trainer the training task runs   *)
(*   backend/routes/task_routes.py    the HTTP boundary                    *)
(*   app.py                      the client's polling loop                 *)
(*                                                                         *)
(* The job store is Celery's result backend: a task id maps to a state     *)
(* (PENDING, STARTED, PROGRESS, SUCCESS, FAILURE, REVOKED) and a result.   *)
(* An id the backend has never heard of reads as PENDING.                  *)
(***************************************************************************)
EXTENDS Integers, Sequences, FiniteSets, TLC

\* ------------------------------------------------------------------ bounds
\* Number of task ids the clients may submit, poll and cancel.
MaxJobs == 2

\* ------------------------------------------------------- program constants
\* tasks.py:82, 91, 106 and 174: the progress values the tasks publish.
ProgressLoaded == 10
ProgressTrained == 70
ProgressSaved == 90
ProgressPredicting == 30
\* app.py:388: the client sets its bar to 100 when the status is "success".
ProgressDone == 100

TaskIds == 1..MaxJobs
NoJob == 0

\* The worker processes. Each is started as `celery -A tasks worker
\* --loglevel=info --pool=solo` (celery_start.py:34-40, start_dev.py:182-188):
\* the solo pool runs one task at a time, inline in the consumer.
Workers == {"w1", "w2"}

\* tasks.py:39-43: the queues the tasks are routed to; "celery" is the
\* default queue, which nothing of tasks.py is routed to.
QueueNames == {"celery", "ml_training", "predictions"}

Kinds == {"train", "predict"}

\* tasks.py:39-42 task_routes
Route(kind) == IF kind = "train" THEN "ml_training" ELSE "predictions"

\* celery_start.py:34-40: the worker command names no queue (-Q), so the
\* worker consumes the default queue only.
DefaultQueues == {"celery"}

\* A worker started by hand with -Q ml_training,predictions: the deployment in
\* which the bodies of the tasks run at all.
RoutedQueues == {"ml_training", "predictions"}

\* Datasets a model row may point to and the model types a row may carry
\* (ml_service.py:39-62: Classification/Regression, Clustering, anything else).
Datasets == {"d1", "d2"}
NoDataset == "none"
ModelTypes == {"Classification", "Time Series"}
SupportedTypes == {"Classification", "Regression", "Clustering"}

\* A file name that leaves the model type out.
ModelFilenameByStem(ds, mt) == <<ds, "model.joblib">>

\* ml_service.py:64-65: the artifact's file name is the dataset's base name,
\* the model type and the fixed suffix; nothing else enters it.
ModelFilename(ds, mt) == <<ds, mt, "model.joblib">>

Paths == {ModelFilename(ds, mt) : ds \in Datasets, mt \in ModelTypes}

NoFile == [owner |-> NoJob, complete |-> FALSE]

NoResult == [type |-> "none", progress |-> 0, prefix |-> "", msg |-> ""]

VARIABLES
    consume_from,   \* the queues the workers consume
    submitted,      \* ids 1..submitted have been handed out
    kind,           \* kind of each submitted job ("none" before)
    dataset,        \* the dataset of a training job's model row
    queue,          \* broker: queue name -> sequence of task ids
    state,          \* result backend: state per task id
    result,         \* result backend: result/meta per task id
    cur,            \* the task a worker is executing (NoJob when idle)
    pc,             \* position of the worker inside the task body
    model,          \* the task's local `model`: "unbound", "None", "row"
    exc,            \* the exception in flight in the task body
    revoked,        \* worker's in-memory set of revoked ids
    mailbox,        \* revoke broadcasts a worker has not processed yet
    training_status,\* database: training_status of the job's model row
    session,        \* the database session of the worker's task: "open", "closed"
    files,          \* trained_models/: path -> [owner, complete]
    watched,        \* the job the observed client submits, polls and cancels
    bar,            \* that client's progress bar (percent)
    client,         \* its polling loop: "none", "polling", "stopped"
    cancelled,      \* what its last accepted cancel found the job to be
    starts,         \* how often a worker has started the job
    cause,          \* the exception raised in the try block of the job's task
    request,        \* the last call of a synchronous route or service function
    response,       \* what that call returned
    models_dir,     \* names of the files in models/ (ml_routes.py:74, 107)
    uploaded_data,  \* uploaded_data/: file stem -> [writer, df] (data_service.py:7)
    nreq            \* how many synchronous training requests were handled

vars == <<consume_from, submitted, kind, dataset, queue, state, result, cur,
          pc, model, exc, revoked, mailbox, training_status, session, files, watched, bar, client, cancelled,
          starts, cause, request, response, models_dir, uploaded_data,
          nreq>>

brokerVars == <<consume_from, submitted, kind, dataset, queue>>
workerVars == <<cur, pc, model, exc, revoked, mailbox>>
clientVars == <<watched, bar, client, cancelled>>
historyVars == <<starts, cause>>
serviceVars == <<request, response, models_dir, uploaded_data, nreq>>
dbVars == <<training_status, session>>
jobVars == <<brokerVars, state, result, workerVars, dbVars, clientVars,
            historyVars>>

\* No synchronous call has been made.
NoRequest == [op |-> "none"]
NoResponse == [op |-> "none"]

\* Base names of uploaded files and the empty upload directory.
UploadStems == {"d1", "d2"}
NoUpload == [writer |-> 0, df |-> <<>>]
NoUploads == [st \in UploadStems |-> NoUpload]

ServiceIdle ==
    /\ request = NoRequest
    /\ response = NoResponse
    /\ models_dir = {}
    /\ uploaded_data = NoUploads
    /\ nreq = 0

Terminal == {"SUCCESS", "FAILURE", "REVOKED"}

\* training_status of a model row before its training task has written it;
\* the task writes "completed" (tasks.py:98) and "failed" (tasks.py:133).
RowCreated == "created"

Init ==
    /\ consume_from \in {DefaultQueues, RoutedQueues}
    /\ submitted = 0
    /\ kind = [j \in TaskIds |-> "none"]
    /\ dataset = [j \in TaskIds |-> NoDataset]
    /\ queue = [q \in QueueNames |-> <<>>]
    /\ state = [j \in TaskIds |-> "PENDING"]
    /\ result = [j \in TaskIds |-> NoResult]
    /\ cur = [w \in Workers |-> NoJob]
    /\ pc = [w \in Workers |-> "idle"]
    /\ model = [w \in Workers |-> "unbound"]
    /\ exc = [w \in Workers |-> "none"]
    /\ revoked = [w \in Workers |-> {}]
    /\ mailbox = [w \in Workers |-> {}]
    /\ training_status = [j \in TaskIds |-> RowCreated]
    /\ session = [w \in Workers |-> "closed"]
    /\ files = [p \in Paths |-> NoFile]
    /\ watched \in TaskIds
    /\ bar = 0
    /\ client = "none"
    /\ cancelled = "no"
    /\ starts = [j \in TaskIds |-> 0]
    /\ cause = [j \in TaskIds |-> "none"]
    /\ ServiceIdle

\* ------------------------------------------------------------- submission
\* A client sends a task; Celery generates a fresh id and routes the message
\* by task_routes. A training task is sent for a model row, which names its
\* dataset (tasks.py:69-73). Nothing is written to the result backend on submission, so
\* the job reads as PENDING. The client of app.py then starts polling.
Submit(k, ds) ==
    /\ submitted < MaxJobs
    /\ UNCHANGED <<serviceVars, dbVars>>
    /\ ds \in (IF k = "train" THEN Datasets ELSE {NoDataset})
    /\ submitted' = submitted + 1
    /\ kind' = [kind EXCEPT ![submitted + 1] = k]
    /\ dataset' = [dataset EXCEPT ![submitted + 1] = ds]
    /\ queue' = [queue EXCEPT ![Route(k)] = Append(@, submitted + 1)]
    /\ client' = IF submitted + 1 = watched THEN "polling" ELSE client
    /\ UNCHANGED <<consume_from, state, result, workerVars, files, watched,
                   bar, cancelled, historyVars>>

\* ----------------------------------------------------------- the workers
\* A delivery that leaves the message in the queue.
DequeueKeeps(q) == queue

\* The head of a consumed, non-empty queue is delivered to one idle worker
\* and leaves the queue (Celery acknowledges a message before it runs the
\* task; tasks.py sets neither acks_late nor a retry policy).
Dequeue(q) == [queue EXCEPT ![q] = Tail(@)]

\* An id that has left the queue is never delivered again, so a worker's
\* record of its revocation can match nothing any more: it is dropped.
Forget(f, j) == [w \in Workers |-> f[w] \ {j}]

\* tasks.py:38 task_track_started=True: the worker records STARTED when it
\* begins a task. A task whose id is in the worker's revoked set is discarded
\* on receipt and recorded as REVOKED.
WorkerReceive(w, q) ==
    /\ cur[w] = NoJob
    /\ UNCHANGED <<serviceVars, training_status>>
    /\ q \in consume_from /\ queue[q] # <<>>
    /\ LET j == Head(queue[q]) IN
        /\ queue' = Dequeue(q)
        /\ revoked' = Forget(revoked, j)
        /\ mailbox' = Forget(mailbox, j)
        /\ IF j \in revoked[w]
           THEN /\ state' = [state EXCEPT ![j] = "REVOKED"]
                /\ result' = [result EXCEPT ![j] =
                       [NoResult EXCEPT !.type = "exc", !.msg = "revoked"]]
                /\ UNCHANGED <<cur, pc, starts, session>>
           ELSE /\ state' = [state EXCEPT ![j] = "STARTED"]
                /\ result' = [result EXCEPT ![j] = NoResult]
                /\ cur' = [cur EXCEPT ![w] = j]
                /\ pc' = [pc EXCEPT ![w] =
                       IF kind[j] = "train" THEN "load" ELSE "p_load"]
                /\ starts' = [starts EXCEPT ![j] = @ + 1]
                /\ session' = [session EXCEPT ![w] = "open"]
    /\ UNCHANGED <<consume_from, submitted, kind, dataset, model, exc, files,
                   clientVars, cause>>

\* The worker handles the revoke broadcasts it has received. With the solo
\* pool the consumer is blocked while a task runs, so control messages are
\* handled only between tasks: no task is executing then and terminate=True
\* finds nothing to kill.
WorkerRevoke(w) ==
    /\ cur[w] = NoJob
    /\ UNCHANGED <<serviceVars, dbVars>>
    /\ mailbox[w] # {}
    /\ mailbox' = [mailbox EXCEPT ![w] = {}]
    /\ revoked' = [revoked EXCEPT ![w] = @ \cup mailbox[w]]
    /\ UNCHANGED <<brokerVars, state, result, cur, pc, model, exc, files,
                   clientVars, historyVars>>

\* A task that publishes what is left to do instead of what is done.
UpdateProgressRemaining(j, n) ==
    /\ state' = [state EXCEPT ![j] = "PROGRESS"]
    /\ result' = [result EXCEPT ![j] =
           [NoResult EXCEPT !.type = "progress", !.progress = ProgressDone - n]]

\* self.update_state(state="PROGRESS", meta={"progress": n, ...})
UpdateProgress(j, n) ==
    /\ state' = [state EXCEPT ![j] = "PROGRESS"]
    /\ result' = [result EXCEPT ![j] =
           [NoResult EXCEPT !.type = "progress", !.progress = n]]

\* An exception is raised inside the try block of a task: control goes to
\* the except clause with e bound to it.
Raise(w, e, handler) ==
    /\ exc' = [exc EXCEPT ![w] = e]
    /\ pc' = [pc EXCEPT ![w] = handler]
    /\ cause' = [cause EXCEPT ![cur[w]] = e]

\* The task function is left: the finally clause closes the session and the
\* worker is free for the next message.
Leave(w) ==
    /\ session' = [session EXCEPT ![w] = "closed"]
    /\ cur' = [cur EXCEPT ![w] = NoJob]
    /\ pc' = [pc EXCEPT ![w] = "idle"]
    /\ model' = [model EXCEPT ![w] = "unbound"]
    /\ exc' = [exc EXCEPT ![w] = "none"]

\* The task returned a value: Celery stores SUCCESS with it.
StoreSuccess(j) ==
    /\ state' = [state EXCEPT ![j] = "SUCCESS"]
    /\ result' = [result EXCEPT ![j] = [NoResult EXCEPT !.type = "retval"]]

\* The task raised: Celery stores FAILURE with the exception, whose text is
\* prefix + msg.
StoreFailure(j, prefix, msg) ==
    /\ state' = [state EXCEPT ![j] = "FAILURE"]
    /\ result' = [result EXCEPT ![j] =
           [NoResult EXCEPT !.type = "exc", !.prefix = prefix, !.msg = msg]]

\* What the two queries of tasks.py:69-75 can end in: the first query raises
\* (model stays unbound), finds no row (model = None), or finds the row and
\* the second query finds no dataset or finds it.
LoadOutcomes == {"db_error", "model_not_found", "dataset_not_found", "ok"}

ModelAfterLoad(found) ==
    IF found = "db_error" THEN "unbound"
    ELSE IF found = "model_not_found" THEN "None" ELSE "row"

\* tasks.py:67-83: the two queries, then the first progress update.
Load(w, found) ==
    /\ pc[w] = "load"
    /\ UNCHANGED <<serviceVars, dbVars>>
    /\ model' = [model EXCEPT ![w] = ModelAfterLoad(found)]
    /\ IF found = "ok"
       THEN /\ UpdateProgress(cur[w], ProgressLoaded)
            /\ pc' = [pc EXCEPT ![w] = "train"]
            /\ UNCHANGED <<exc, cause>>
       ELSE /\ Raise(w, found, "handler")
            /\ UNCHANGED <<state, result>>
    /\ UNCHANGED <<brokerVars, cur, revoked, mailbox, files, clientVars,
                   starts>>

\* ------------------------------------------------------------ the trainer
\* ml_service.py:31-77 train_model. The stages, in the order of the code:
\* read (32), select (34-37), then by model type split (41), fit (45, 51, 57)
\* and metric (47, 53, 59) or the ValueError of line 62, and last the save
\* (64-66). `how` is the stage that raises, or "ok". joblib.dump opens the
\* path for writing and then pickles into it: a failure to open leaves the
\* directory as it was ("save_open"), a failure while writing leaves a
\* truncated file at the path ("save_write").
TrainStages(mt) ==
    {"read", "select"} \cup
    (IF mt \in SupportedTypes
     THEN (IF mt = "Clustering" THEN {} ELSE {"split"})
          \cup {"fit", "metric", "save_open", "save_write", "ok"}
     ELSE {"unsupported"})

\* The exception train_model re-raises (ml_service.py:75-77), by kind.
TrainError(how) ==
    IF how \in {"save_open", "save_write"} THEN "save_error"
    ELSE IF how = "unsupported" THEN "unsupported"
    ELSE "train_error"

\* A trainer that names the artifact by the model type alone.
TrainFilesShared(f, j, ds, mt, how) ==
    IF how \in {"ok", "save_write"}
    THEN [f EXCEPT ![ModelFilename("d1", mt)] =
             [owner |-> j, complete |-> how = "ok"]]
    ELSE f

\* The directory after train_model(ds, mt) run by job j ended at stage `how`.
TrainFiles(f, j, ds, mt, how) ==
    IF how = "ok"
    THEN [f EXCEPT ![ModelFilename(ds, mt)] = [owner |-> j, complete |-> TRUE]]
    ELSE IF how = "save_write"
    THEN [f EXCEPT ![ModelFilename(ds, mt)] = [owner |-> j, complete |-> FALSE]]
    ELSE f

\* tasks.py:85-92: the training task calls the trainer on the row's dataset
\* and model type, then publishes 70; the trainer's exception propagates.
Train(w, mt, how) ==
    /\ pc[w] = "train"
    /\ UNCHANGED <<serviceVars, dbVars>>
    /\ how \in TrainStages(mt)
    /\ files' = TrainFiles(files, cur[w], dataset[cur[w]], mt, how)
    /\ IF how = "ok"
       THEN /\ UpdateProgress(cur[w], ProgressTrained)
            /\ pc' = [pc EXCEPT ![w] = "commit"]
            /\ UNCHANGED <<exc, cause>>
       ELSE /\ Raise(w, TrainError(how), "handler")
            /\ UNCHANGED <<state, result>>
    /\ UNCHANGED <<brokerVars, cur, model, revoked, mailbox, clientVars,
                   starts>>

\* tasks.py:94-107: the row is updated and committed (the commit may raise),
\* then 90 is published.
Commit(w, ok) ==
    /\ pc[w] = "commit"
    /\ UNCHANGED <<serviceVars, session>>
    /\ IF ok
       THEN /\ training_status' = [training_status EXCEPT ![cur[w]] = "completed"]
            /\ UpdateProgress(cur[w], ProgressSaved)
            /\ pc' = [pc EXCEPT ![w] = "rag"]
            /\ UNCHANGED <<exc, cause>>
       ELSE /\ Raise(w, "commit_error", "handler")
            /\ UNCHANGED <<state, result, training_status>>
    /\ UNCHANGED <<brokerVars, cur, model, revoked, mailbox, files,
                   clientVars, starts>>

\* tasks.py:109-124 and 144-145: the knowledge-base update (its failure is
\* logged and swallowed, so both outcomes continue), the return value, the
\* finally clause; Celery stores SUCCESS.
Return(w) ==
    /\ pc[w] = "rag"
    /\ UNCHANGED <<serviceVars, training_status>>
    /\ StoreSuccess(cur[w])
    /\ Leave(w)
    /\ UNCHANGED <<brokerVars, revoked, mailbox, files, clientVars,
                   historyVars>>

\* tasks.py:132 `if 'model' in locals()`: true as soon as line 69 has
\* assigned the name, also when it assigned None.
ModelInLocals(m) == m # "unbound"

\* The text of error_msg (tasks.py:128, 190): the task's prefix and str(e).
ErrorPrefix(k) == IF k = "train" THEN "train_failed" ELSE "predict_failed"

\* self.update_state(state="FAILURE", meta={"error": error_msg, ...}) writes
\* FAILURE with a plain dict as the result.
UpdateFailure(j, e) ==
    /\ state' = [state EXCEPT ![j] = "FAILURE"]
    /\ result' = [result EXCEPT ![j] =
           [NoResult EXCEPT !.type = "meta", !.prefix = ErrorPrefix(kind[j]),
                            !.msg = e]]

\* tasks.py:132-135: a row that was loaded is set to "failed" and committed.
MarkFailed(ts, j, m) == IF m = "row" THEN [ts EXCEPT ![j] = "failed"] ELSE ts

\* tasks.py:126-140 and 144-145: the except clause of the training task up to
\* its update_state. With model = None, model.training_status raises
\* AttributeError out of the handler; the commit of line 135 may raise out of
\* it too. An exception that leaves the handler is what Celery stores.
Handler(w, commitOk) ==
    /\ pc[w] = "handler"
    /\ UNCHANGED serviceVars
    /\ IF ~ModelInLocals(model[w]) \/ (model[w] = "row" /\ commitOk)
       THEN /\ UpdateFailure(cur[w], exc[w])
            /\ pc' = [pc EXCEPT ![w] = "raise"]
            /\ training_status' = MarkFailed(training_status, cur[w], model[w])
            /\ UNCHANGED <<cur, model, exc, session>>
       ELSE /\ UNCHANGED training_status
            /\ StoreFailure(cur[w], "",
                   IF model[w] = "None" THEN "attribute_error"
                                        ELSE "commit_error")
            /\ Leave(w)
    /\ UNCHANGED <<brokerVars, revoked, mailbox, files, clientVars,
                   historyVars>>

\* tasks.py:142 and 198, then the finally clause: raise Exception(error_msg).
Reraise(w) ==
    /\ pc[w] = "raise"
    /\ UNCHANGED <<serviceVars, training_status>>
    /\ StoreFailure(cur[w], ErrorPrefix(kind[cur[w]]), exc[w])
    /\ Leave(w)
    /\ UNCHANGED <<brokerVars, revoked, mailbox, files, clientVars,
                   historyVars>>

\* --------------------------------------------------- the prediction task
\* tasks.py:164-175: the query, then the progress update.
PredictLoad(w, found) ==
    /\ pc[w] = "p_load"
    /\ UNCHANGED <<serviceVars, dbVars>>
    /\ found # "dataset_not_found"
    /\ model' = [model EXCEPT ![w] = ModelAfterLoad(found)]
    /\ IF found = "ok"
       THEN /\ UpdateProgress(cur[w], ProgressPredicting)
            /\ pc' = [pc EXCEPT ![w] = "predict"]
            /\ UNCHANGED <<exc, cause>>
       ELSE /\ Raise(w, found, "p_handler")
            /\ UNCHANGED <<state, result>>
    /\ UNCHANGED <<brokerVars, cur, revoked, mailbox, files, clientVars,
                   starts>>

\* tasks.py:177-187 and 200-201: the prediction and the return value, or the
\* predictor's exception.
Predict(w, ok) ==
    /\ pc[w] = "predict"
    /\ UNCHANGED <<serviceVars, training_status>>
    /\ IF ok
       THEN /\ StoreSuccess(cur[w])
            /\ Leave(w)
            /\ UNCHANGED cause
       ELSE /\ Raise(w, "predict_error", "p_handler")
            /\ UNCHANGED <<state, result, cur, model, session>>
    /\ UNCHANGED <<brokerVars, revoked, mailbox, files, clientVars, starts>>

\* tasks.py:189-196: the except clause of the prediction task up to its
\* update_state.
PredictHandler(w) ==
    /\ pc[w] = "p_handler"
    /\ UNCHANGED <<serviceVars, dbVars>>
    /\ UpdateFailure(cur[w], exc[w])
    /\ pc' = [pc EXCEPT ![w] = "raise"]
    /\ UNCHANGED <<brokerVars, cur, model, exc, revoked, mailbox, files,
                   clientVars, historyVars>>

\* ------------------------------------------------------- worker lifecycle
\* The worker process dies while it runs a task and is started again. The
\* message was acknowledged when the task started, so it is not delivered
\* again; the revoked set is kept in memory only (the command line names no
\* --statedb) and unhandled broadcasts die with the process. Nothing writes
\* the job's stored state.
WorkerCrash(w) ==
    /\ cur[w] # NoJob
    /\ UNCHANGED <<serviceVars, training_status>>
    /\ Leave(w)
    /\ revoked' = [revoked EXCEPT ![w] = {}]
    /\ mailbox' = [mailbox EXCEPT ![w] = {}]
    /\ UNCHANGED <<brokerVars, state, result, files, clientVars, historyVars>>

\* ------------------------------------------------------------ the Job API
\* tasks.py:204-248 get_task_status, on the stored state and result of id i.
\* An id the backend does not know reads as PENDING (no branch tells it from
\* a queued job). Reading a FAILURE whose stored result is the plain dict of
\* update_state makes AsyncResult raise while it rebuilds the exception, so
\* the except clause of lines 244-248 answers "error". Any other state
\* (STARTED, REVOKED) is passed through by the else branch.
get_task_status(i) ==
    LET r == result[i] IN
    CASE state[i] = "PENDING" ->
           [status |-> "pending", progress |-> 0, error |-> <<>>]
      [] state[i] = "PROGRESS" ->
           [status |-> "progress", progress |-> r.progress, error |-> <<>>]
      [] state[i] = "SUCCESS" ->
           [status |-> "success", progress |-> 0, error |-> <<>>]
      [] state[i] = "FAILURE" /\ r.type = "exc" ->
           [status |-> "failure", progress |-> 0, error |-> <<r.prefix, r.msg>>]
      [] state[i] = "FAILURE" /\ r.type # "exc" ->
           [status |-> "error", progress |-> 0, error |-> <<"status_failed", "">>]
      [] OTHER ->
           [status |-> state[i], progress |-> 0, error |-> <<>>]

\* app.py:381-412: what one round of the client's loop does with a snapshot:
\* the bar follows "progress", goes to 100 on "success"; the loop breaks on
\* "success" and "failure" and sleeps on anything else.
ClientBar(old, snap) ==
    IF snap.status = "progress" THEN snap.progress
    ELSE IF snap.status = "success" THEN ProgressDone
    ELSE old

ClientLoop(snap) ==
    IF snap.status \in {"success", "failure"} THEN "stopped" ELSE "polling"

\* task_routes.py:7-10 GET /status/{task_id}, called by one round of the
\* polling loop of the observed client.
Poll ==
    /\ client = "polling"
    /\ UNCHANGED <<serviceVars, dbVars>>
    /\ LET snap == get_task_status(watched) IN
        /\ bar' = ClientBar(bar, snap)
        /\ client' = ClientLoop(snap)
    /\ UNCHANGED <<brokerVars, state, result, workerVars, files, watched,
                   cancelled, historyVars>>

\* tasks.py:250-266 cancel_task: revoke(task_id, terminate=True) is broadcast
\* and True is returned; False only when the broadcast itself raised (`up` is
\* whether the broker could be reached). The stored state is neither read nor
\* written.
cancel_task(up) == up

Queued(i) == \E q \in QueueNames : \E n \in 1..Len(queue[q]) : queue[q][n] = i

\* The broadcast reaches the workers. Only the revoke of an id that is still
\* in a queue can have an effect: an id that was never handed out matches no
\* later job (ids are generated at submission), a finished task is not
\* delivered again, and the solo pool cannot terminate the task it is running.
Broadcast(i, up) ==
    [w \in Workers |->
        IF up /\ Queued(i) /\ i \notin revoked[w]
        THEN mailbox[w] \cup {i} ELSE mailbox[w]]

\* What an accepted cancel found the job to be, from its stored state.
StateClass(st) ==
    IF st = "PENDING" THEN "pending"
    ELSE IF st \in Terminal THEN "done" ELSE "running"

\* task_routes.py:12-16 POST /cancel/{task_id} -> {"success": cancel_task(id)}
\* by any client for any submitted id; the observed client notes an answer of
\* success: true together with what the job was at that moment. (A status or
\* cancel request for an id that was never handed out changes nothing: its
\* answer is get_task_status(i) and cancel_task(up) in the current state.)
Cancel(i, up) ==
    /\ i <= submitted
    /\ UNCHANGED <<serviceVars, dbVars>>
    /\ mailbox' = Broadcast(i, up)
    /\ cancelled' = IF i = watched /\ cancel_task(up)
                    THEN StateClass(state[i]) ELSE cancelled
    /\ UNCHANGED <<brokerVars, state, result, cur, pc, model, exc, revoked,
                   files, watched, bar, client, historyVars>>

\* ------------------------------------------------------- the specification
WorkerStep(w) ==
    \/ \E q \in QueueNames : WorkerReceive(w, q)
    \/ WorkerRevoke(w)
    \/ \E found \in LoadOutcomes : Load(w, found)
    \/ \E mt \in ModelTypes :
         \E how \in TrainStages(mt) : Train(w, mt, how)
    \/ \E ok \in BOOLEAN : Commit(w, ok)
    \/ Return(w)
    \/ \E ok \in BOOLEAN : Handler(w, ok)
    \/ Reraise(w)
    \/ \E found \in LoadOutcomes : PredictLoad(w, found)
    \/ \E ok \in BOOLEAN : Predict(w, ok)
    \/ PredictHandler(w)

Next ==
    \/ \E k \in Kinds, ds \in Datasets \cup {NoDataset} : Submit(k, ds)
    \/ \E w \in Workers : WorkerStep(w)
    \/ \E w \in Workers : WorkerCrash(w)
    \/ Poll
    \/ \E i \in TaskIds, up \in BOOLEAN : Cancel(i, up)

Spec == Init /\ [][Next]_vars

\* A worker keeps taking its next step and a polling client keeps polling.
FairSpec ==
    /\ Spec
    /\ \A w \in Workers : WF_vars(WorkerStep(w))
    /\ WF_vars(Poll)

\* ------------------------------------------------- the synchronous routes
\* ml_routes.py serves training, prediction, listing and deletion inside the
\* request: no task is sent, so the broker, the workers and the result
\* backend stay as they are after construction.
JobIdle ==
    /\ consume_from = DefaultQueues
    /\ submitted = 0
    /\ kind = [j \in TaskIds |-> "none"]
    /\ dataset = [j \in TaskIds |-> NoDataset]
    /\ queue = [q \in QueueNames |-> <<>>]
    /\ state = [j \in TaskIds |-> "PENDING"]
    /\ result = [j \in TaskIds |-> NoResult]
    /\ cur = [w \in Workers |-> NoJob]
    /\ pc = [w \in Workers |-> "idle"]
    /\ model = [w \in Workers |-> "unbound"]
    /\ exc = [w \in Workers |-> "none"]
    /\ revoked = [w \in Workers |-> {}]
    /\ mailbox = [w \in Workers |-> {}]
    /\ training_status = [j \in TaskIds |-> RowCreated]
    /\ session = [w \in Workers |-> "closed"]
    /\ watched = 1
    /\ bar = 0
    /\ client = "none"
    /\ cancelled = "no"
    /\ starts = [j \in TaskIds |-> 0]
    /\ cause = [j \in TaskIds |-> "none"]

\* Training requests handled in one run of the model.
MaxRequests == 2

\* ml_service.py:12
MODELS_DIR == "trained_models"

\* file_path values: two files with the same base name in different
\* directories, and one with another base name.
FilePaths ==
    {[dir |-> "uploads", stem |-> "d1", ext |-> "parquet"],
     [dir |-> "tmp", stem |-> "d1", ext |-> "parquet"],
     [dir |-> "uploads", stem |-> "d2", ext |-> "parquet"]}

\* ml_service.py:64 os.path.splitext(os.path.basename(file_path))[0]
Stem(fp) == fp.stem

\* The columns of the parquet file read at ml_service.py:32.
Columns(fp) == {"x1", "x2", "y"}

\* target_column of the request: JSON null or absent ("none"), a column of
\* the data, a name that is no column.
NoTarget == "none"
Targets == {NoTarget, "y", "zz"}

\* features of the request: none given, columns of the data, a list that
\* names a column the data does not have.
FeatureLists == {<<>>, <<"x1", "x2">>, <<"x1", "qq">>}

\* model_type of the request; the page offers the last one when it was
\* recommended (ml_model_training.py:106-111).
RequestTypes == {"Classification", "Clustering", "Time Series"}

ServicePaths == {ModelFilename(Stem(fp), mt) : fp \in FilePaths, mt \in RequestTypes}

Range(seq) == {seq[n] : n \in 1..Len(seq)}

\* A selection that skips the names the data does not have.
SelectXLenient(cols, target, features) == "ok"

\* ml_service.py:34-37: X = df[features] when a non-empty list was given,
\* else df.drop(columns=[target_column]); both raise KeyError for a name
\* that is no column.
SelectX(cols, target, features) ==
    IF features # <<>>
    THEN (IF Range(features) \subseteq cols THEN "ok" ELSE "KeyError")
    ELSE (IF target \in cols THEN "ok" ELSE "KeyError")

\* What the environment lets a run get to: the file cannot be read, the
\* estimator fails on the data, the disk fills while the artifact is
\* written, or nothing fails.
TrainEnv == {"read", "fit", "save_write", "ok"}

\* ml_service.py:31-66: the stage at which train_model stops, in the order
\* of the code: read (32), select (34-37), y = df[target_column] of the
\* supervised types (40), the ValueError of the other types (62), then
\* fit and save.
StageOf(fp, target, mt, features, env) ==
    IF env = "read" THEN "read"
    ELSE IF SelectX(Columns(fp), target, features) # "ok" THEN "select"
    ELSE IF mt \in {"Classification", "Regression"} /\ target \notin Columns(fp)
    THEN "split"
    ELSE IF mt \notin SupportedTypes THEN "unsupported"
    ELSE env

\* ml_service.py:65, 71: os.path.join(MODELS_DIR, model_filename)
ModelSavePath(fp, mt) == <<MODELS_DIR, ModelFilename(Stem(fp), mt)>>

\* ml_routes.py:9-33 POST /train-model/. TrainModelRequest declares
\* target_column: str, so a request without a target is answered 422 before
\* train_model is called; an exception of train_model is answered 500 with
\* its text in the detail. `stage` is where train_model stopped.
TrainResponse(fp, target, mt, features, env) ==
    IF target = NoTarget
    THEN [op |-> "train", status |-> 422, error |-> "validation",
          stage |-> "none", model_path |-> <<>>]
    ELSE IF StageOf(fp, target, mt, features, env) = "ok"
    THEN [op |-> "train", status |-> 200, error |-> "none",
          stage |-> "ok", model_path |-> ModelSavePath(fp, mt)]
    ELSE [op |-> "train", status |-> 500,
          error |-> TrainError(StageOf(fp, target, mt, features, env)),
          stage |-> StageOf(fp, target, mt, features, env),
          model_path |-> <<>>]

train_ml_model(fp, target, mt, features, env) ==
    /\ nreq < MaxRequests
    /\ nreq' = nreq + 1
    /\ request' = [op |-> "train", file_path |-> fp, target_column |-> target,
                   model_type |-> mt, features |-> features]
    /\ response' = TrainResponse(fp, target, mt, features, env)
    /\ files' = IF target = NoTarget THEN files
                ELSE TrainFiles(files, nreq + 1, Stem(fp), mt,
                                StageOf(fp, target, mt, features, env))
    /\ UNCHANGED <<jobVars, models_dir, uploaded_data>>

\* Files that can lie in models/: nothing in the program writes there, so
\* they were put there by hand.
ModelsDirNames ==
    {<<"d1", "Classification", "model.joblib">>, <<"old", "pkl">>,
     <<"notes", "txt">>}

Extension(name) ==
    IF name[Len(name)] = "model.joblib" THEN "joblib" ELSE name[Len(name)]

\* ml_routes.py:74-92: the *.pkl and *.joblib files of models/.
Listing(dir) == {name \in dir : Extension(name) \in {"pkl", "joblib"}}

\* ml_routes.py:66-98 GET /models
get_models ==
    /\ request' = [op |-> "get_models"]
    /\ response' = [op |-> "get_models", status |-> 200,
                    models |-> Listing(models_dir)]
    /\ UNCHANGED <<jobVars, files, models_dir, uploaded_data, nreq>>

\* ml_routes.py:100-121 DELETE /models/{model_name}: 404 when models/ has no
\* such file, else os.remove, whose failure is answered 500.
delete_model(name, ok) ==
    /\ request' = [op |-> "delete", model_name |-> name]
    /\ response' = [op |-> "delete",
                    status |-> IF name \notin models_dir THEN 404
                               ELSE IF ok THEN 200 ELSE 500]
    /\ models_dir' = IF name \in models_dir /\ ok
                     THEN models_dir \ {name} ELSE models_dir
    /\ UNCHANGED <<jobVars, files, uploaded_data, nreq>>

TrainInit ==
    /\ JobIdle
    /\ files = [p \in ServicePaths |-> NoFile]
    /\ models_dir \in SUBSET ModelsDirNames
    /\ uploaded_data = NoUploads
    /\ request = NoRequest
    /\ response = NoResponse
    /\ nreq = 0

TrainNext ==
    \/ \E fp \in FilePaths, target \in Targets, mt \in RequestTypes :
         \E features \in FeatureLists, env \in TrainEnv :
            train_ml_model(fp, target, mt, features, env)
    \/ get_models
    \/ \E name \in ModelsDirNames \cup ServicePaths, ok \in BOOLEAN :
         delete_model(name, ok)

TrainSpec == TrainInit /\ [][TrainNext]_vars

\* ---------------------------------------------------- the recommendation
\* Rows of the data frames the recommendation is computed for.
MaxRows == 100

\* What recommend_model_type reads of a data frame: len(series) and
\* series.nunique() of the target column, whether its dtype is numeric, and
\* whether some column has a datetime dtype.
DataFrames ==
    {[rows |-> n, unique |-> u, numeric |-> num, dates |-> dt] :
        n \in 0..MaxRows, u \in 0..MaxRows, num \in BOOLEAN, dt \in BOOLEAN}

\* nunique() counts the distinct non-null values of the len(series) rows.
WellFormed(df) == df.unique <= df.rows

\* target_column: None, the empty string, a column, a name that is no column.
TargetArgs == {NoTarget, "", "y", "zz"}

\* Python truth of target_column (ai_recommendation_service.py:43).
Truthy(target) == target \notin {NoTarget, ""}

\* The comparison with >= in place of >.
analyze_target_variable_inclusive(df) ==
    IF df.numeric
    THEN (IF 20 * df.unique >= df.rows /\ df.rows >= 20
          THEN "continuous" ELSE "categorical")
    ELSE "categorical"

\* ai_recommendation_service.py:5-18. series.nunique() > 0.05 * len(series)
\* is a comparison of doubles; for every length and count it has the value
\* of 20 * nunique > len.
analyze_target_variable(df) ==
    IF df.numeric
    THEN (IF 20 * df.unique > df.rows /\ df.rows > 20
          THEN "continuous" ELSE "categorical")
    ELSE "categorical"

\* The branch without a target that forgets its explanation.
TargetRuleSilent(df, target) ==
    IF Truthy(target) /\ target \in Columns(df)
    THEN (IF analyze_target_variable(df) = "categorical"
          THEN [model_types |-> <<"Classification">>,
                explanation |-> <<"categorical">>]
          ELSE [model_types |-> <<"Regression">>,
                explanation |-> <<"continuous">>])
    ELSE [model_types |-> <<"Clustering", "Recommendation">>,
          explanation |-> <<>>]

\* ai_recommendation_service.py:43-68: the candidates and the sentences of
\* the explanation after the target rule.
TargetRule(df, target) ==
    IF Truthy(target) /\ target \in Columns(df)
    THEN (IF analyze_target_variable(df) = "categorical"
          THEN [model_types |-> <<"Classification">>,
                explanation |-> <<"categorical">>]
          ELSE IF analyze_target_variable(df) = "continuous"
          THEN [model_types |-> <<"Regression">>,
                explanation |-> <<"continuous">>]
          ELSE [model_types |-> <<>>, explanation |-> <<"unclear">>])
    ELSE [model_types |-> <<"Clustering", "Recommendation">>,
          explanation |-> <<"no_target", "consider_clustering",
                            "consider_recommendation">>]

\* The time-series candidate in place of the others.
DateRuleExclusive(rec, df) ==
    IF df.dates
    THEN [model_types |-> <<"Time Series Forecasting">>,
          explanation |-> <<"dates">>]
    ELSE rec

\* The time-series candidate put in front of the others.
DateRuleFirst(rec, df) ==
    IF df.dates
    THEN [model_types |-> <<"Time Series Forecasting">> \o rec.model_types,
          explanation |-> Append(rec.explanation, "dates")]
    ELSE rec

\* ai_recommendation_service.py:70-77
DateRule(rec, df) ==
    IF df.dates
    THEN [model_types |-> Append(rec.model_types, "Time Series Forecasting"),
          explanation |-> Append(rec.explanation, "dates")]
    ELSE rec

\* ai_recommendation_service.py:79-81
Fallback(rec) ==
    IF rec.model_types = <<>>
    THEN [model_types |-> <<"General Purpose">>, explanation |-> <<"general">>]
    ELSE rec

\* ai_recommendation_service.py:20-84
recommend_model_type(df, target) ==
    Fallback(DateRule(TargetRule(df, target), df))

Recommend ==
    /\ request.op = "recommend"
    /\ response = NoResponse
    /\ response' = [op |-> "recommend"] @@
                   recommend_model_type(request.df, request.target_column)
    /\ UNCHANGED <<jobVars, files, request, models_dir, uploaded_data, nreq>>

RecommendInit ==
    /\ JobIdle
    /\ files = [p \in Paths |-> NoFile]
    /\ models_dir = {}
    /\ uploaded_data = NoUploads
    /\ nreq = 0
    /\ request \in {[op |-> "recommend", df |-> df, target_column |-> t] :
                       df \in {d \in DataFrames : WellFormed(d)}, t \in TargetArgs}
    /\ response = NoResponse

RecommendNext == Recommend

RecommendSpec == RecommendInit /\ [][RecommendNext]_vars

\* -------------------------------------------------------- the predictor
\* Records of one prediction request.
MaxBatch == 2

\* The columns X had when the stored estimators were fitted; the estimator
\* keeps them as feature_names_in_.
TrainedFeatures == <<"x1", "x2">>

\* A record of data_to_predict, as the sequence of its keys: the trained
\* features, the same in another order, one feature short, one key more, and
\* another key in place of a feature.
RecordShapes ==
    {<<"x1", "x2">>, <<"x2", "x1">>, <<"x1">>, <<"x1", "x2", "x3">>,
     <<"x1", "x3">>}

RECURSIVE BatchesOf(_)
BatchesOf(n) ==
    IF n = 0 THEN {<<>>}
    ELSE BatchesOf(n - 1) \cup
         {Append(b, r) : b \in {c \in BatchesOf(n - 1) : Len(c) = n - 1},
                         r \in RecordShapes}

\* ml_routes.py:54 pd.DataFrame(request.data_to_predict): the columns are the
\* keys of the records in the order of their first appearance.
RECURSIVE FrameColumns(_)
FrameColumns(batch) ==
    IF batch = <<>> THEN <<>>
    ELSE LET prev == FrameColumns(SubSeq(batch, 1, Len(batch) - 1))
         IN  prev \o SelectSeq(batch[Len(batch)],
                               LAMBDA k : k \notin Range(prev))

\* The cell of row i in column k: a key the record does not have is NaN.
Cell(batch, i, k) ==
    [row |-> i, col |-> k,
     value |-> IF k \in Range(batch[i]) THEN "given" ELSE "NaN"]

HasNaN(batch) ==
    \E i \in 1..Len(batch) :
        \E k \in Range(FrameColumns(batch)) : k \notin Range(batch[i])

\* scikit-learn is required without a version (start_dev.py:94-95). Releases
\* before 1.2 only warn when the column names differ from those of the fit,
\* later ones raise; from 1.4 the random forests take NaN.
Sklearn == {"1.0", "1.2", "1.4"}
NamesStrict(lib) == lib \in {"1.2", "1.4"}
ForestTakesNaN(lib) == lib = "1.4"

\* ml_service.py:43-57: the estimator saved for a model type.
Estimator(name) == IF name[2] = "Clustering" THEN "KMeans" ELSE "RandomForest"

\* model_path values: two stored artifacts and a path without a file.
StoredPaths ==
    {ModelSavePath([stem |-> "d1"], "Classification"),
     ModelSavePath([stem |-> "d1"], "Clustering")}
ModelPaths == StoredPaths \cup {ModelSavePath([stem |-> "d2"], "Classification")}

\* ml_service.py:93-108: load_model (102), then model.predict (103), which
\* checks the frame before it predicts. The exception raised, or "ok".
PredictOutcome(path, batch, lib) ==
    LET cols == FrameColumns(batch)
    IN  IF ~files[path[2]].complete THEN "load_error"
        ELSE IF Len(batch) = 0 THEN "no_samples"
        ELSE IF cols # TrainedFeatures /\ NamesStrict(lib) THEN "feature_names"
        ELSE IF HasNaN(batch)
                /\ ~(Estimator(path[2]) = "RandomForest" /\ ForestTakesNaN(lib))
        THEN "nan"
        ELSE IF Len(cols) # Len(TrainedFeatures) THEN "n_features"
        ELSE "ok"

\* predictions.tolist(): one entry per row of the frame, in row order; the
\* estimator reads the columns by position. An entry is written as the cells
\* it was computed from.
Predictions(batch) ==
    [i \in 1..Len(batch) |->
        [p \in 1..Len(FrameColumns(batch)) |->
            Cell(batch, i, FrameColumns(batch)[p])]]

\* ml_routes.py:46-64 POST /predict/
predict_ml_model(lib) ==
    /\ request.op = "predict"
    /\ response = NoResponse
    /\ response' =
          IF PredictOutcome(request.model_path, request.data_to_predict, lib) = "ok"
          THEN [op |-> "predict", status |-> 200, error |-> "none",
                predictions |-> Predictions(request.data_to_predict)]
          ELSE [op |-> "predict", status |-> 500,
                error |-> PredictOutcome(request.model_path,
                                         request.data_to_predict, lib),
                predictions |-> <<>>]
    /\ UNCHANGED <<jobVars, files, request, models_dir, uploaded_data, nreq>>

PredictInit ==
    /\ JobIdle
    /\ files = [p \in ServicePaths |->
                  IF <<MODELS_DIR, p>> \in StoredPaths
                  THEN [owner |-> 1, complete |-> TRUE] ELSE NoFile]
    /\ models_dir = {}
    /\ uploaded_data = NoUploads
    /\ nreq = 1
    /\ request \in {[op |-> "predict", model_path |-> mp, data_to_predict |-> b] :
                       mp \in ModelPaths, b \in BatchesOf(MaxBatch)}
    /\ response = NoResponse

PredictNext == \E lib \in Sklearn : predict_ml_model(lib)

PredictSpec == PredictInit /\ [][PredictNext]_vars

\* ------------------------------------------- the upload and the pipeline
\* data_service.py:7
UPLOAD_DIR == "uploaded_data"

\* file.filename of an upload: two base names, and a name that is no CSV.
UploadNames ==
    {[base |-> "d1", ext |-> "csv"], [base |-> "d2", ext |-> "csv"],
     [base |-> "d1", ext |-> "txt"]}

\* The uploaded data: a frame whose column y is categorical, and one whose y
\* is continuous and that has a datetime column.
UploadFrames ==
    {[rows |-> 30, unique |-> 2, numeric |-> TRUE, dates |-> FALSE],
     [rows |-> 30, unique |-> 30, numeric |-> TRUE, dates |-> TRUE]}

\* data_service.py:16-17: save_path = UPLOAD_DIR/{file_base}.parquet
SavePath(name) == [dir |-> UPLOAD_DIR, stem |-> name.base, ext |-> "parquet"]

\* data_service.py:20 df.to_parquet(save_path, index=False) by request n:
\* the file at save_path is created or replaced.
ToParquet(dir, n, name, df) ==
    [dir EXCEPT ![Stem(SavePath(name))] = [writer |-> n, df |-> df]]

\* predict_new_data of the pipeline: None, or one record given by its keys.
NoData == <<>>
NewData == {NoData, <<"x1", "x2">>, <<"x1", "x2", "y">>, <<"x1">>}

\* auto_ml.py:43-47: the first supervised type among the candidates.
AutoTrainType(rec) ==
    IF "Classification" \in Range(rec.model_types) THEN "Classification"
    ELSE IF "Regression" \in Range(rec.model_types) THEN "Regression"
    ELSE "none"

\* A pipeline that trains whenever a target was given.
AutoTrainsGivenTarget(fp, target, rec) == Truthy(target)

\* auto_ml.py:39-40, 49: whether the pipeline calls train_model.
AutoTrains(fp, target, rec) ==
    /\ Truthy(target) /\ target \in Columns(fp)
    /\ AutoTrainType(rec) # "none"

\* auto_ml.py:61-72: the new data is cut to the features (a KeyError for a
\* feature it does not have) or loses the target column, then the saved
\* model predicts; the exception raised, or "ok".
AutoPredict(new_data, features, target, lib) ==
    LET cols == IF features # <<>> THEN features
                ELSE SelectSeq(new_data, LAMBDA k : k # target)
        fitted == IF features # <<>> THEN features ELSE TrainedFeatures
    IN  IF features # <<>> /\ ~(Range(features) \subseteq Range(new_data))
        THEN "KeyError"
        ELSE IF cols # fitted /\ NamesStrict(lib) THEN "feature_names"
        ELSE IF Len(cols) # Len(fitted) THEN "n_features"
        ELSE "ok"

\* A pipeline whose error answer carries the results gathered so far.
PipelineAnswerPartial(failed) ==
    [status |-> IF failed THEN "error" ELSE "success",
     keys |-> {"status", "message", "results"}]

\* auto_ml.py:80, 84: the dict the pipeline returns, by its status and keys.
PipelineAnswer(failed) ==
    [status |-> IF failed THEN "error" ELSE "success",
     keys |-> IF failed THEN {"status", "message"}
              ELSE {"status", "message", "results"}]

\* auto_ml.py:16-84 run_auto_ml_pipeline on the stored file fp holding df.
\* `log` lists the stages entered, in order; `trained` is the model type
\* handed to train_model and `train_stage` where train_model stopped;
\* `results` are the keys of the results dict when the function is left.
run_auto_ml_pipeline(fp, df, target, features, new_data, env, lib) ==
    LET read == env # "read" /\ df # <<>>
        rec == IF read THEN recommend_model_type(df, target)
               ELSE [model_types |-> <<>>, explanation |-> <<>>]
        trains == read /\ AutoTrains(fp, target, rec)
        mt == IF trains THEN AutoTrainType(rec) ELSE "none"
        stage == IF trains THEN StageOf(fp, target, mt, features, env)
                 ELSE "none"
        predicts == trains /\ stage = "ok" /\ new_data # NoData
        pout == IF predicts THEN AutoPredict(new_data, features, target, lib)
                ELSE "none"
        failed == ~read \/ (trains /\ stage # "ok") \/ (predicts /\ pout # "ok")
    IN  PipelineAnswer(failed) @@
        [log |-> <<"read">> \o (IF read THEN <<"recommend">> ELSE <<>>)
                 \o (IF trains THEN <<"train">> ELSE <<>>)
                 \o (IF predicts THEN <<"predict">> ELSE <<>>),
         recommendations |-> rec,
         trained |-> mt,
         train_stage |-> stage,
         predicted |-> pout,
         results |-> (IF read THEN {"recommendations"} ELSE {})
                     \cup (IF stage = "ok" THEN {"training_result"} ELSE {})
                     \cup (IF pout = "ok" THEN {"predictions"} ELSE {})]

\* The artifacts after the pipeline ran as request n.
PipelineFiles(f, n, fp, pipe) ==
    IF pipe.trained # "none"
    THEN TrainFiles(f, n, Stem(fp), pipe.trained, pipe.train_stage)
    ELSE f

\* No pipeline was run.
NoPipeline == [status |-> "none", keys |-> {}, log |-> <<>>]

\* What an upload can fail at besides the training: pd.read_csv
\* (data_routes.py:28) and df.to_parquet (data_service.py:20).
UploadEnv == {"parse", "store"} \cup TrainEnv

PathsOfUploads ==
    {ModelFilename(st, mt) : st \in UploadStems,
                             mt \in {"Classification", "Regression"}}

\* data_routes.py:15-54 POST /upload: 400 for a name that does not end in
\* .csv; else the file is parsed, stored and handed to the pipeline, and
\* the answer is built from auto_ml_results["results"], a KeyError when the
\* pipeline's dict has no such key; every exception is answered 500.
upload_csv(name, df, target, env) ==
    /\ nreq < MaxRequests
    /\ nreq' = nreq + 1
    /\ request' = [op |-> "upload", filename |-> name, df |-> df,
                   target_column |-> target]
    /\ LET stored == name.ext = "csv" /\ env \notin {"parse", "store"}
           pipe == IF stored
                   THEN run_auto_ml_pipeline(SavePath(name), df, target, <<>>,
                                             NoData, env, "1.0")
                   ELSE NoPipeline
       IN  /\ uploaded_data' = IF stored
                                THEN ToParquet(uploaded_data, nreq + 1, name, df)
                                ELSE uploaded_data
           /\ files' = IF stored
                        THEN PipelineFiles(files, nreq + 1, SavePath(name), pipe)
                        ELSE files
           /\ response' =
                 [op |-> "upload",
                  status |-> IF name.ext # "csv" THEN 400
                             ELSE IF "results" \in pipe.keys THEN 200 ELSE 500,
                  auto_ml_results |-> pipe]
    /\ UNCHANGED <<jobVars, models_dir>>

\* A call of AutoMLService.run_auto_ml_pipeline on a file of uploaded_data/
\* with features and new data (auto_ml.py:16-22); reading a file that is
\* not there raises.
AutoML(st, target, features, new_data, env, lib) ==
    /\ nreq < MaxRequests
    /\ nreq' = nreq + 1
    /\ new_data = NoData => lib = "1.0"
    /\ request' = [op |-> "pipeline", stem |-> st, target_column |-> target,
                   features |-> features, predict_new_data |-> new_data]
    /\ LET fp == [dir |-> UPLOAD_DIR, stem |-> st, ext |-> "parquet"]
           pipe == run_auto_ml_pipeline(fp, uploaded_data[st].df, target,
                                        features, new_data, env, lib)
       IN  /\ files' = PipelineFiles(files, nreq + 1, fp, pipe)
           /\ response' = [op |-> "pipeline", auto_ml_results |-> pipe]
    /\ UNCHANGED <<jobVars, models_dir, uploaded_data>>

UploadInit ==
    /\ JobIdle
    /\ files = [p \in PathsOfUploads |-> NoFile]
    /\ ServiceIdle

UploadNext ==
    \/ \E name \in UploadNames, df \in UploadFrames, target \in TargetArgs :
         \E env \in UploadEnv : upload_csv(name, df, target, env)
    \/ \E st \in UploadStems, target \in TargetArgs, features \in FeatureLists :
         \E new_data \in NewData, env \in TrainEnv, lib \in Sklearn :
            AutoML(st, target, features, new_data, env, lib)

UploadSpec == UploadInit /\ [][UploadNext]_vars

\* ------------------------------------------------------------- the claims
Running(j) == \E w \in Workers : cur[w] = j

\* The job was started, no worker runs it and no final result was stored:
\* its worker died while running it.
Lost(j) ==
    /\ starts[j] > 0 /\ ~Running(j)
    /\ ~(state[j] \in {"SUCCESS", "REVOKED"})
    /\ ~(state[j] = "FAILURE" /\ result[j].type = "exc")

\* The job's training run left a file in trained_models/.
LeftArtifact(j) == \E p \in Paths : files[p].owner = j

\* C1: once a job's stored state is terminal, no later step changes its stored
\* state or result, and no later cancel of it is answered with success.
C1_TerminalIsFinal ==
    [][\A j \in TaskIds :
          state[j] \in Terminal =>
             /\ state'[j] = state[j]
             /\ result'[j] = result[j]
             /\ (j = watched => cancelled' = cancelled)]_vars

\* C2: a cancel of a job that is already SUCCESS is not answered with success.
C2_CancelAfterSuccessTooLate ==
    state[watched] = "SUCCESS" => cancelled # "done"

\* C3: the progress the polling client observes never decreases, and it shows
\* 100 only for a job whose stored state is SUCCESS.
C3_ProgressMonotone ==
    [][/\ bar' >= bar
       /\ (bar' = ProgressDone => state'[watched] = "SUCCESS")]_vars

\* The client has polled the job up to its success.
C3_Witness ==
    /\ kind[watched] = "train" /\ bar = ProgressDone /\ client = "stopped"

\* C4: a training job whose cancel was accepted while it was still PENDING is
\* never started, leaves no artifact, and is REVOKED once it has left the queue.
C4_EarlyCancelWins ==
    (kind[watched] = "train" /\ cancelled = "pending") =>
        /\ starts[watched] = 0
        /\ ~LeftArtifact(watched)
        /\ (~Queued(watched) => state[watched] = "REVOKED")

\* C5: no job is started twice and no job is run by two workers at once.
C5_SingleExecution ==
    /\ \A j \in TaskIds : starts[j] <= 1
    /\ \A w1, w2 \in Workers :
          (cur[w1] # NoJob /\ cur[w1] = cur[w2]) => w1 = w2

\* Both workers are running a job.
C5_Witness == \A w \in Workers : cur[w] # NoJob

\* C6: every submitted prediction job eventually leaves its queue.
C6_PredictionPickedUp ==
    \A j \in TaskIds : (kind[j] = "predict") ~> ~Queued(j)

\* C7: a job whose worker died while running it is eventually recorded as
\* FAILURE with the cause "worker lost".
C7_LostJobReaped ==
    \A j \in TaskIds :
        Lost(j) ~> (state[j] = "FAILURE" /\ result[j].msg = "worker_lost")

\* C8: a training job recorded as FAILURE has left no artifact file.
C8_FailedLeavesNoArtifact ==
    \A j \in TaskIds :
        (kind[j] = "train" /\ state[j] = "FAILURE") => ~LeftArtifact(j)

\* C9: the snapshot of a job that ended in FAILURE is a failure whose error
\* text carries the exception that was raised in the task's try block.
C9_FailureCarriesCause ==
    \A j \in TaskIds :
        (state[j] = "FAILURE" /\ ~Running(j)) =>
            /\ get_task_status(j).status = "failure"
            /\ get_task_status(j).error[2] = cause[j]

\* C10: for an id that was never submitted, the status answer is not that of a
\* pending job and a cancel is not answered with success.
C10_UnknownIdNotFound ==
    \A i \in TaskIds :
        i > submitted =>
            /\ get_task_status(i).status # "pending"
            /\ ~cancel_task(TRUE)

\* The last training request wrote (all or part of) a file.
WroteArtifact == \E p \in ServicePaths : files[p].owner = nreq /\ nreq > 0

NoJobCreated ==
    /\ submitted = 0
    /\ \A q \in QueueNames : queue[q] = <<>>
    /\ \A w \in Workers : cur[w] = NoJob

MissingFeature(r) == ~(Range(r.features) \subseteq Columns(r.file_path))

\* C11 as stated: a training request whose target is absent or no column of
\* the data, whose model type is unsupported or that names a missing feature
\* is rejected, writes no artifact and creates no job.
C11_InvalidRejected ==
    (/\ request.op = "train"
     /\ \/ request.target_column \notin Columns(request.file_path)
        \/ request.model_type \notin SupportedTypes
        \/ MissingFeature(request)) =>
        /\ response.status # 200
        /\ ~WroteArtifact
        /\ NoJobCreated

\* train_model reads the target for the supervised types and when no feature
\* list is given.
TargetRead(r) ==
    r.model_type \in {"Classification", "Regression"} \/ r.features = <<>>

\* C11 amended: a training request without a target, with an unsupported
\* model type or a missing feature, or with a target that is no column while
\* the run reads the target, is rejected, writes no artifact and creates no
\* job.
C11_InvalidRejectedWhereRead ==
    (/\ request.op = "train"
     /\ \/ request.target_column = NoTarget
        \/ (request.target_column \notin Columns(request.file_path)
            /\ TargetRead(request))
        \/ request.model_type \notin SupportedTypes
        \/ MissingFeature(request)) =>
        /\ response.status # 200
        /\ ~WroteArtifact
        /\ NoJobCreated

\* A request with a target that is no column was rejected.
C11_Witness ==
    /\ request.op = "train" /\ request.target_column = "zz"
    /\ request.model_type = "Classification" /\ ~MissingFeature(request)
    /\ response.status = 500 /\ response.stage # "read"

\* C12: a path that holds an artifact is never written again.
C12_ArtifactsImmutable ==
    [][\A p \in ServicePaths :
          files[p].owner # NoJob => files'[p] = files[p]]_vars

\* C13: a successful training request changes exactly one file of
\* trained_models/, the one named by the base name of file_path, the model
\* type and model.joblib, writes it completely and returns its path.
C13_OneArtifactNamedByStemAndType ==
    [][(nreq' # nreq /\ response'.status = 200) =>
          /\ {p \in ServicePaths : files'[p] # files[p]} =
                {<<request'.file_path.stem, request'.model_type, "model.joblib">>}
          /\ \A p \in ServicePaths : files'[p] # files[p] => files'[p].complete
          /\ response'.model_path =
                <<"trained_models",
                  <<request'.file_path.stem, request'.model_type, "model.joblib">>>>
      ]_vars

\* A request for a file outside the upload directory has succeeded.
C13_Witness ==
    /\ request.op = "train" /\ response.status = 200
    /\ request.file_path.dir = "tmp"

\* C14: every completely written artifact is in the listing, a file leaves
\* trained_models/ or models/ only by the delete request that names it, and a
\* delete answered 404 removes nothing.
C14_StoredUntilDeleted ==
    [][/\ \A p \in ServicePaths :
             files'[p].complete => p \in Listing(models_dir')
       /\ \A p \in ServicePaths :
             files[p].owner # NoJob => files'[p].owner # NoJob
       /\ \A n \in models_dir \ models_dir' :
             request'.op = "delete" /\ request'.model_name = n
       /\ (request'.op = "delete" /\ response'.status = 404) =>
             (models_dir' = models_dir /\ files' = files)]_vars

\* C18: a training request that carries a target, names an unsupported model
\* type and whose file can be read is answered with the
\* unsupported-model-type error, whatever its target and features are, and
\* writes no artifact.
C18_UnsupportedTypeRejected ==
    (/\ request.op = "train"
     /\ request.model_type \notin SupportedTypes
     /\ request.target_column # NoTarget
     /\ response.stage # "read") =>
        /\ response.status # 200
        /\ response.error = "unsupported"
        /\ ~WroteArtifact

\* The candidates the rules produced for the request, before the fallback.
RuleCandidates ==
    DateRule(TargetRule(request.df, request.target_column), request.df).model_types

\* C15: every recommendation has at least one candidate and a non-empty
\* explanation, and when the rules produced no candidate the candidates are
\* General Purpose alone.
C15_NeverEmpty ==
    response.op = "recommend" =>
        /\ Len(response.model_types) > 0
        /\ Len(response.explanation) > 0
        /\ (RuleCandidates = <<>> => response.model_types = <<"General Purpose">>)

\* A recommendation for a target that names no column of the data.
C15_Witness ==
    /\ response.op = "recommend" /\ request.target_column = "zz"
    /\ ~request.df.dates

\* C16: without a target the candidates are Clustering, Recommendation and,
\* only when the data has a datetime column, Time Series Forecasting after
\* them; the explanation opens with the sentence that no target was given.
C16_NoTargetUnsupervised ==
    (response.op = "recommend" /\ ~Truthy(request.target_column)) =>
        /\ response.model_types =
              IF request.df.dates
              THEN <<"Clustering", "Recommendation", "Time Series Forecasting">>
              ELSE <<"Clustering", "Recommendation">>
        /\ response.explanation[1] = "no_target"

\* A recommendation without a target for data with a datetime column.
C16_Witness ==
    /\ response.op = "recommend" /\ request.target_column = NoTarget
    /\ request.df.dates

\* C17: for a target that is a column, Regression is a candidate exactly when
\* the column is numeric, has more distinct values than 5% of the rows and
\* the rows are more than 20; otherwise Classification is and Regression is
\* not.
C17_RegressionThreshold ==
    (response.op = "recommend" /\ request.target_column = "y") =>
        LET types == Range(response.model_types)
            continuous == /\ request.df.numeric
                          /\ 20 * request.df.unique > request.df.rows
                          /\ request.df.rows > 20
        IN  /\ ("Regression" \in types) <=> continuous
            /\ ("Classification" \in types) <=> ~continuous

\* The recommendation for 20 rows with 20 distinct numeric values.
C17_Witness ==
    /\ response.op = "recommend" /\ request.target_column = "y"
    /\ request.df.numeric /\ request.df.rows = 20 /\ request.df.unique = 20
    /\ "Classification" \in Range(response.model_types)

\* Every record of the request has every feature the artifact was fitted on.
AllFeaturesGiven ==
    \A i \in 1..Len(request.data_to_predict) :
        Range(TrainedFeatures) \subseteq Range(request.data_to_predict[i])

\* C19: for a stored artifact and a non-empty batch whose records all carry
\* the trained features, the answer has one prediction per record, the i-th
\* computed from the i-th record.
C19_OnePredictionPerRecord ==
    (/\ response.op = "predict"
     /\ request.model_path \in StoredPaths
     /\ Len(request.data_to_predict) > 0
     /\ AllFeaturesGiven) =>
        /\ response.status = 200
        /\ Len(response.predictions) = Len(request.data_to_predict)
        /\ \A i \in 1..Len(response.predictions) :
              \A p \in 1..Len(response.predictions[i]) :
                 response.predictions[i][p].row = i

\* C20: when some record lacks a trained feature the request is answered
\* with an error and no prediction.
C20_MissingFeatureRejectsBatch ==
    (response.op = "predict" /\ ~AllFeaturesGiven) =>
        /\ response.status # 200
        /\ response.predictions = <<>>

\* The step is one of job i: the worker that runs i, or starts to run it,
\* moves.
StepOf(i) ==
    \E w \in Workers : (cur[w] = i \/ cur'[w] = i) /\ pc'[w] # pc[w]

\* No other submitted job was sent for the dataset of job j.
OnlyJobOn(j) == \A i \in TaskIds \ {j} : dataset[i] # dataset[j]

\* The artifact of job j's dataset is the complete file job j wrote.
OwnArtifact(j) ==
    \E p \in Paths : p[1] = dataset[j] /\ files[p] = [owner |-> j, complete |-> TRUE]

FinalStatuses == {"success", "failure", "REVOKED", "error"}

\* C22: a client that polls a job whose snapshot reports a final status or an
\* error of the status query eventually leaves its polling loop.
C22_PollingStops ==
    (client = "polling" /\ get_task_status(watched).status \in FinalStatuses)
        ~> (client = "stopped")

\* C23: a training job whose cancel was accepted while a worker was running
\* it, and whose task raised no exception of its own, ends as REVOKED and
\* leaves no artifact file.
C23_RunningCancelAborts ==
    (kind[watched] = "train" /\ cancelled = "running"
        /\ cause[watched] = "none" /\ state[watched] \in Terminal) =>
            /\ state[watched] = "REVOKED"
            /\ ~LeftArtifact(watched)

\* C24: a file of uploaded_data/ that has been written is never written
\* again, whatever is uploaded later.
C24_DatasetsWrittenOnce ==
    [][\A st \in UploadStems :
          uploaded_data[st] # NoUpload => uploaded_data'[st] = uploaded_data[st]]_vars

C26_InvalidIsValidationError ==
    (/\ request.op = "train" /\ response.stage # "read"
     /\ \/ /\ request.model_type \in {"Classification", "Regression"}
           /\ request.target_column \notin Columns(request.file_path)
        \/ MissingFeature(request)) =>
        /\ response.error = "validation"
        /\ response.status \in 400..499
        /\ response.stage \in {"none", "select"}
        /\ ~WroteArtifact

\* The predictions computed from the trained features alone, in the order
\* of the fit.
FittedPredictions(batch) ==
    [i \in 1..Len(batch) |->
        [p \in 1..Len(TrainedFeatures) |-> Cell(batch, i, TrainedFeatures[p])]]

\* C27: for a stored artifact and a non-empty batch whose records all carry
\* the trained features, whatever other keys they carry and in whatever
\* order, the request succeeds and the predictions are those computed from
\* the trained features in the order of the fit.
C27_SupersetAccepted ==
    (/\ response.op = "predict"
     /\ request.model_path \in StoredPaths
     /\ Len(request.data_to_predict) > 0
     /\ AllFeaturesGiven) =>
        /\ response.error = "none"
        /\ response.predictions = FittedPredictions(request.data_to_predict)

\* The task of job j raised after line 69 had loaded the model row.
RaisedWithRow(j) ==
    /\ state[j] = "FAILURE" /\ ~Running(j)
    /\ cause[j] \notin {"none", "db_error", "model_not_found"}

\* C28: when a training task has ended, its model row is not "completed" if
\* the task ended in FAILURE and is "failed" if the task raised after the
\* row was loaded; a worker that runs no task holds no open session.
C28_StatusAgreesWithOutcome ==
    /\ \A j \in TaskIds :
          (kind[j] = "train" /\ ~Running(j)) =>
              /\ state[j] = "FAILURE" => training_status[j] # "completed"
              /\ RaisedWithRow(j) => training_status[j] = "failed"
    /\ \A w \in Workers : cur[w] = NoJob => session[w] = "closed"

\* The pipeline ran in the last request and could read the data.
PipelineRan ==
    /\ response.op \in {"upload", "pipeline"}
    /\ "recommend" \in Range(response.auto_ml_results.log)

\* Stage a of the log was entered before stage b.
Before(log, a, b) ==
    \E m, n \in 1..Len(log) : m < n /\ log[m] = a /\ log[n] = b

\* The last request wrote (all or part of) an artifact.
PipelineWrote == \E p \in PathsOfUploads : files[p].owner = nreq

\* C29: a pipeline that read the data recommends before it trains; it trains
\* exactly when the target names a column, and then the one supervised type
\* among the candidates; otherwise it trains nothing and writes no
\* artifact; it predicts only after a training that succeeded.
C29_RecommendThenTrain ==
    PipelineRan =>
        LET pipe == response.auto_ml_results
            stages == Range(pipe.log)
            types == Range(pipe.recommendations.model_types)
            named == /\ Truthy(request.target_column)
                     /\ request.target_column \in Columns(request)
        IN  /\ "train" \in stages <=> named
            /\ "train" \in stages =>
                  /\ Before(pipe.log, "recommend", "train")
                  /\ pipe.trained \in {"Classification", "Regression"}
                  /\ types \cap {"Classification", "Regression"} = {pipe.trained}
            /\ ~named => (pipe.trained = "none" /\ ~PipelineWrote)
            /\ "predict" \in stages =>
                  /\ Before(pipe.log, "train", "predict")
                  /\ pipe.train_stage = "ok"
                  /\ \E p \in PathsOfUploads :
                        files[p] = [owner |-> nreq, complete |-> TRUE]

\* A pipeline recommended, trained a regression and predicted for new data.
C29_Witness ==
    /\ response.op = "pipeline"
    /\ response.auto_ml_results.log = <<"read", "recommend", "train", "predict">>
    /\ response.auto_ml_results.trained = "Regression"
    /\ response.auto_ml_results.status = "success"

\* C30: an upload whose pipeline ended with status "error" is answered with
\* an error status, and an upload is answered 200 only when its pipeline
\* ended with status "success" and returned its results.
C30_UploadFailsWithPipeline ==
    response.op = "upload" =>
        /\ response.auto_ml_results.status = "error" => response.status >= 400
        /\ response.status = 200 =>
              /\ response.auto_ml_results.status = "success"
              /\ "results" \in response.auto_ml_results.keys

\* An upload was stored and its pipeline failed in the fit of the training.
C30_Witness ==
    /\ response.op = "upload"
    /\ response.auto_ml_results.status = "error"
    /\ response.auto_ml_results.log = <<"read", "recommend", "train">>
    /\ response.status = 500
    /\ uploaded_data[request.filename.base].writer = nreq

====
